---- MODULE Spec2Model ----
(***************************************************************************)
(* NetRunner Cloud API (src/main.py): the six HTTP handlers over the three *)
(* tables devices, device_urls and results.                                *)
(*                                                                         *)
(* A handler is an operator from the committed tables and the request to   *)
(* the tables it commits and the response it returns.  psycopg2 opens a    *)
(* transaction at the first execute and the handlers commit once, at the   *)
(* end; a handler that raises never reaches conn.commit(), so its          *)
(* statements are rolled back when the connection is dropped.              *)
(***************************************************************************)
EXTENDS Integers, Sequences, FiniteSets, TLC

VARIABLES devices, device_urls, results, clock, req, resp, txns

vars == <<devices, device_urls, results, clock, req, resp, txns>>

(***************************************************************************)
(* Bounds of the model.                                                    *)
(***************************************************************************)
MaxClock == 2       \* timestamps handed out by the config specification
MaxUrls == 2        \* longest urls list of a set_config body
MaxBatch == 2       \* longest results list of one upload
MaxRows == 3        \* rows of the results table in SpecResults
MaxTime == 4        \* last clock reading in SpecResults
WindowRows == 60    \* rows of the results table in SpecWindow
MaxCalls == 3       \* heartbeats and set_config calls begun in SpecConc

(***************************************************************************)
(* Values.  A JSON value of a request body is a one-field record whose     *)
(* field names its type; ABSENT is a key the dict does not hold.           *)
(***************************************************************************)
NULL == "<null>"
ABSENT == [absent |-> TRUE]
JNull == [null |-> TRUE]
JBool(b) == [bool |-> b]
JInt(n) == [int |-> n]
JStr(s) == [str |-> s]

IsAbsent(v) == "absent" \in DOMAIN v

\* dict.get(key, default)
Get(v, default) == IF IsAbsent(v) THEN default ELSE v

\* Python bool(v): None, False, 0 and "" are falsy
PyBool(v) ==
    CASE "null" \in DOMAIN v -> FALSE
      [] "bool" \in DOMAIN v -> v.bool
      [] "int" \in DOMAIN v -> v.int # 0
      [] "str" \in DOMAIN v -> v.str # ""
      [] OTHER -> TRUE

\* The value psycopg2 binds for dict.get(key): None (SQL NULL) for a
\* missing key
Bind(v) == IF IsAbsent(v) THEN JNull ELSE v

\* The decimal strings the model uses, with the integers they denote.
Numerals == {<<"30", 30>>, <<"45", 45>>}

\* Python int(v): [ok, val]; raises (ok = FALSE) on None and on a string
\* that is no decimal numeral; int(True) = 1
PyInt(v) ==
    CASE "int" \in DOMAIN v -> [ok |-> TRUE, val |-> v.int]
      [] "bool" \in DOMAIN v -> [ok |-> TRUE, val |-> IF v.bool THEN 1 ELSE 0]
      [] "str" \in DOMAIN v ->
            IF \E p \in Numerals : p[1] = v.str
            THEN [ok |-> TRUE, val |-> (CHOOSE p \in Numerals : p[1] = v.str)[2]]
            ELSE [ok |-> FALSE, val |-> 0]
      [] OTHER -> [ok |-> FALSE, val |-> 0]

\* datetime.isoformat(): the ISO-8601 rendering of instant t
IsoFormat(t) == <<"iso8601", t>>

DEV_SECRET == "dev-secret"

Devices == {"d1", "d2"}
\* (node_role, hostname) of a heartbeat: both omitted, or both given
HeartbeatParams == {<<NULL, NULL>>, <<"probe", "pi-1">>}

\* url_id values in the store's ascending (text) order
UrlIdOrder == <<"u1", "u10", "u2">>
Rank(id) == CHOOSE i \in DOMAIN UrlIdOrder : UrlIdOrder[i] = id.str

(***************************************************************************)
(* health                                                                  *)
(***************************************************************************)
health(now) ==
    [op |-> "health", status |-> 200,
     body |-> [status |-> "ok", time_utc |-> IsoFormat(now)]]

(***************************************************************************)
(* heartbeat                                                               *)
(***************************************************************************)
\* Mutant of UpsertDevice: a plain insert, without the on-conflict clause.
UpsertDevice_PlainInsert(devs, device_id, hostname, node_role, now, hb) ==
    devs \cup {[device_id |-> device_id, device_secret |-> DEV_SECRET,
                hostname |-> hostname, node_role |-> node_role,
                last_seen_at |-> now, last_heartbeat |-> hb]}

\* insert into devices ... on conflict (device_id) do update set ...
UpsertDevice(devs, device_id, hostname, node_role, now, hb) ==
    IF \E r \in devs : r.device_id = device_id
    THEN {IF r.device_id = device_id
          THEN [r EXCEPT !.hostname = hostname, !.node_role = node_role,
                         !.last_seen_at = now, !.last_heartbeat = hb]
          ELSE r : r \in devs}
    ELSE devs \cup {[device_id |-> device_id, device_secret |-> DEV_SECRET,
                     hostname |-> hostname, node_role |-> node_role,
                     last_seen_at |-> now, last_heartbeat |-> hb]}

\* Mutant of heartbeat: the response echoes the upserted row.
heartbeat_EchoRow(devs, now, device_id, node_role, hostname) ==
    LET hb == [device_id |-> device_id, node_role |-> node_role,
               hostname |-> hostname, time_utc |-> IsoFormat(now)]
        committed == UpsertDevice(devs, device_id, hostname, node_role, now, hb)
    IN [devices |-> committed,
        resp |-> [op |-> "heartbeat", status |-> 200,
                  body |-> [ok |-> TRUE, device_id |-> device_id,
                            device |-> {r \in committed : r.device_id = device_id}]]]

heartbeat(devs, now, device_id, node_role, hostname) ==
    LET hb == [device_id |-> device_id, node_role |-> node_role,
               hostname |-> hostname, time_utc |-> IsoFormat(now)]
        committed == UpsertDevice(devs, device_id, hostname, node_role, now, hb)
    IN [devices |-> committed,
        resp |-> [op |-> "heartbeat", status |-> 200,
                  body |-> [ok |-> TRUE, device_id |-> device_id]]]

(***************************************************************************)
(* get_config                                                              *)
(***************************************************************************)
RECURSIVE OrderByUrlId(_)
\* order by url_id asc, of a set of rows with distinct url_id
OrderByUrlId(rows) ==
    IF rows = {} THEN <<>>
    ELSE LET lo == CHOOSE r \in rows : \A q \in rows : Rank(r.url_id) <= Rank(q.url_id)
         IN <<lo>> \o OrderByUrlId(rows \ {lo})

\* select url_id, url, enabled, interval_sec from device_urls where device_id = %s
SelectUrls(tab, device_id) == {r \in tab : r.device_id = device_id}

DefaultConfig(device_id) ==
    [device_id |-> device_id,
     urls |-> <<[id |-> JStr("u1"), url |-> JStr("https://example.org"),
                 enabled |-> TRUE, interval_sec |-> 60]>>,
     default_interval_sec |-> 60]

\* Mutant of get_config: the stored rows are returned even when there are none.
get_config_NoDefault(tab, device_id) ==
    LET rows == OrderByUrlId(SelectUrls(tab, device_id))
    IN [op |-> "get_config", status |-> 200,
        body |-> [device_id |-> device_id,
                  urls |-> [i \in DOMAIN rows |->
                              [id |-> rows[i].url_id, url |-> rows[i].url,
                               enabled |-> rows[i].enabled,
                               interval_sec |-> rows[i].interval_sec]],
                  default_interval_sec |-> 60]]

get_config(tab, device_id) ==
    LET rows == OrderByUrlId(SelectUrls(tab, device_id))
    IN [op |-> "get_config", status |-> 200,
        body |-> IF rows = <<>>
                 THEN DefaultConfig(device_id)
                 ELSE [device_id |-> device_id,
                       urls |-> [i \in DOMAIN rows |->
                                   [id |-> rows[i].url_id, url |-> rows[i].url,
                                    enabled |-> rows[i].enabled,
                                    interval_sec |-> rows[i].interval_sec]],
                       default_interval_sec |-> 60]]

(***************************************************************************)
(* set_config                                                              *)
(***************************************************************************)
JList(seq) == [list |-> seq]
IsList(v) == "list" \in DOMAIN v

\* Mutant of EnsureDevice: the upsert refreshes last_seen_at on conflict.
EnsureDevice_Refresh(devs, device_id, now) ==
    IF \E r \in devs : r.device_id = device_id
    THEN {IF r.device_id = device_id THEN [r EXCEPT !.last_seen_at = now] ELSE r
          : r \in devs}
    ELSE devs \cup {[device_id |-> device_id, device_secret |-> DEV_SECRET,
                     hostname |-> NULL, node_role |-> NULL,
                     last_seen_at |-> now, last_heartbeat |-> JNull]}

\* insert into devices (device_id, device_secret, last_seen_at)
\* values (%s, %s, now()) on conflict (device_id) do nothing
EnsureDevice(devs, device_id, now) ==
    IF \E r \in devs : r.device_id = device_id
    THEN devs
    ELSE devs \cup {[device_id |-> device_id, device_secret |-> DEV_SECRET,
                     hostname |-> NULL, node_role |-> NULL,
                     last_seen_at |-> now, last_heartbeat |-> JNull]}

\* Mutant of DeleteUrls: the delete is missing (the write merges).
DeleteUrls_Keep(tab, device_id) == tab

\* delete from device_urls where device_id = %s
DeleteUrls(tab, device_id) == {r \in tab : r.device_id # device_id}

\* (device_id, url_id) identifies a DeviceURL row: an insert that repeats it
\* is refused by the store
UniqueUrlId(tab, device_id, url_id) ==
    ~ \E r \in tab : r.device_id = device_id /\ r.url_id = url_id

\* One iteration of the loop over urls: the parameters are evaluated first
\* (int() may raise), then the insert is executed.  [ok, tab]
InsertUrl(tab, device_id, u, body) ==
    LET interval == PyInt(Get(u.interval_sec, Get(body.default_interval_sec, JInt(60))))
        row == [device_id |-> device_id, url_id |-> Bind(u.id), url |-> Bind(u.url),
                enabled |-> PyBool(Get(u.enabled, JBool(TRUE))),
                interval_sec |-> interval.val]
    IN IF interval.ok /\ UniqueUrlId(tab, device_id, row.url_id)
       THEN [ok |-> TRUE, tab |-> tab \cup {row}]
       ELSE [ok |-> FALSE, tab |-> tab]

RECURSIVE InsertUrls(_, _, _, _)
\* for u in urls: cur.execute(insert ...), stopping at the first that raises
InsertUrls(tab, device_id, urls, body) ==
    IF urls = <<>> THEN [ok |-> TRUE, tab |-> tab]
    ELSE LET one == InsertUrl(tab, device_id, Head(urls), body)
         IN IF one.ok THEN InsertUrls(one.tab, device_id, Tail(urls), body) ELSE one

\* Mutant of Commit: the connection is in autocommit mode, every executed
\* statement is durable at once.
Commit_Autocommit(done, before, working) == working

\* conn.commit() is the handler's last statement: what an earlier raise left
\* in the transaction is rolled back with the connection
Commit(done, before, working) == IF done THEN working ELSE before

set_config(devs, tab, now, device_id, body) ==
    LET urls == Get(body.urls, JList(<<>>))
    IN IF ~ IsList(urls)
       THEN [devices |-> devs, device_urls |-> tab,
             resp |-> [op |-> "set_config", status |-> 400,
                       body |-> [detail |-> "body.urls must be a list"]]]
       ELSE LET devs1 == EnsureDevice(devs, device_id, now)
                ins == InsertUrls(DeleteUrls(tab, device_id), device_id, urls.list, body)
            IN [devices |-> Commit(ins.ok, devs, devs1),
                device_urls |-> Commit(ins.ok, tab, ins.tab),
                resp |-> IF ins.ok
                         THEN [op |-> "set_config", status |-> 200,
                               body |-> [ok |-> TRUE, device_id |-> device_id,
                                         urls |-> Len(urls.list)]]
                         ELSE [op |-> "set_config", status |-> 500,
                               body |-> [detail |-> "Internal Server Error"]]]

(***************************************************************************)
(* upload_results                                                          *)
(***************************************************************************)
\* A JSON string that is the ISO-8601 rendering of instant t, and a JSON
\* object (psycopg2 cannot adapt a dict parameter: execute raises).
JIso(t) == [iso |-> t]
JObj == [obj |-> TRUE]
Adaptable(v) == "obj" \notin DOMAIN v

\* x or y
Or(x, y) == IF PyBool(x) THEN x ELSE y

\* The instant the store keeps for an ISO-8601 timestamp parameter
ParseIso(v) == v.iso

ResultFields(r) == <<r.url_id, r.url, r.success, r.http_status, r.total_ms, r.error>>

\* Mutant of InsertResult: an entry without timestamp_utc is skipped.
InsertResult_SkipUntimed(tab, now, device_id, r) ==
    IF IsAbsent(r.timestamp_utc)
    THEN [ok |-> TRUE, tab |-> tab]
    ELSE [ok |-> TRUE,
          tab |-> Append(tab, [device_id |-> device_id, url_id |-> Bind(r.url_id),
                               url |-> Bind(r.url),
                               timestamp_utc |-> ParseIso(r.timestamp_utc),
                               success |-> Bind(r.success),
                               http_status |-> Bind(r.http_status),
                               total_ms |-> Bind(r.total_ms),
                               error |-> Bind(r.error)])]

\* One iteration of the loop over results.  [ok, tab]
InsertResult(tab, now, device_id, r) ==
    LET ts == Or(Get(r.timestamp_utc, JNull), JIso(now))
        row == [device_id |-> device_id, url_id |-> Bind(r.url_id),
                url |-> Bind(r.url), timestamp_utc |-> ParseIso(ts),
                success |-> Bind(r.success), http_status |-> Bind(r.http_status),
                total_ms |-> Bind(r.total_ms), error |-> Bind(r.error)]
    IN IF \A i \in 1..6 : Adaptable(ResultFields(r)[i])
       THEN [ok |-> TRUE, tab |-> Append(tab, row)]
       ELSE [ok |-> FALSE, tab |-> tab]

RECURSIVE InsertResults(_, _, _, _, _)
\* for r in results: ...; inserted += 1, stopping at the first that raises;
\* each iteration reads the clock one tick later.  [ok, tab, inserted]
InsertResults(tab, now, device_id, rs, inserted) ==
    IF rs = <<>> THEN [ok |-> TRUE, tab |-> tab, inserted |-> inserted]
    ELSE LET one == InsertResult(tab, now, device_id, Head(rs))
         IN IF one.ok
            THEN InsertResults(one.tab, now + 1, device_id, Tail(rs), inserted + 1)
            ELSE [ok |-> FALSE, tab |-> one.tab, inserted |-> inserted]

\* Mutant of CommitBatch: autocommit, every inserted row is durable at once.
CommitBatch_Autocommit(done, before, working) == working

\* conn.commit() after the loop: a raise inside the loop never reaches it
CommitBatch(done, before, working) == IF done THEN working ELSE before

upload_results(tab, now, device_id, rs) ==
    IF ~ IsList(rs)
    THEN [results |-> tab,
          resp |-> [op |-> "upload_results", status |-> 400,
                    body |-> [detail |-> "results must be a list"]]]
    ELSE LET ins == InsertResults(tab, now, device_id, rs.list, 0)
         IN [results |-> CommitBatch(ins.ok, tab, ins.tab),
             resp |-> IF ins.ok
                      THEN [op |-> "upload_results", status |-> 200,
                            body |-> [ok |-> TRUE, count |-> ins.inserted]]
                      ELSE [op |-> "upload_results", status |-> 500,
                            body |-> [detail |-> "Internal Server Error"]]]

(***************************************************************************)
(* admin_results                                                           *)
(***************************************************************************)
LIMIT == 50

RECURSIVE Perms(_)
\* every ordering of a finite set
Perms(S) ==
    IF S = {} THEN {<<>>}
    ELSE UNION {{<<x>> \o p : p \in Perms(S \ {x})} : x \in S}

RECURSIVE OrderByTimestamp(_, _)
\* order by timestamp_utc asc, of the rows of tab at the positions I: every
\* order the store may produce (rows of equal timestamp come in any order)
OrderByTimestamp(tab, I) ==
    IF I = {} THEN {<<>>}
    ELSE LET lo == {i \in I : \A j \in I : tab[i].timestamp_utc <= tab[j].timestamp_utc}
         IN {p \o rest : p \in Perms(lo), rest \in OrderByTimestamp(tab, I \ lo)}

Take(seq, n) == SubSeq(seq, 1, IF Len(seq) < n THEN Len(seq) ELSE n)

\* select ... from results where device_id = %s order by timestamp_utc asc
\* limit 50: the row positions, in the order fetched
SelectResults(tab, device_id) ==
    {Take(o, LIMIT) :
        o \in OrderByTimestamp(tab, {i \in DOMAIN tab : tab[i].device_id = device_id})}

\* The response for the fetched rows
admin_results_response(tab, device_id, rows) ==
    LET latest == [k \in DOMAIN rows |->
                     [timestamp_utc |-> IsoFormat(tab[rows[k]].timestamp_utc),
                      url_id |-> tab[rows[k]].url_id,
                      url |-> tab[rows[k]].url,
                      success |-> tab[rows[k]].success,
                      http_status |-> tab[rows[k]].http_status,
                      total_ms |-> tab[rows[k]].total_ms,
                      error |-> tab[rows[k]].error]]
    IN [op |-> "admin_results", status |-> 200,
        body |-> [device_id |-> device_id, count |-> Len(latest), latest |-> latest]]

\* The responses admin_results may give
admin_results(tab, device_id) ==
    {admin_results_response(tab, device_id, rows) : rows \in SelectResults(tab, device_id)}

(***************************************************************************)
(* Requests of the model.                                                  *)
(***************************************************************************)
UrlOf(id) == JStr("https://" \o id)

\* Entries of a urls list: one that leaves enabled and interval_sec to their
\* defaults, one that sets both, one whose interval_sec int() refuses.
UrlEntries ==
    {[id |-> JStr("u2"), url |-> UrlOf("u2"), enabled |-> ABSENT, interval_sec |-> ABSENT],
     [id |-> JStr("u10"), url |-> UrlOf("u10"), enabled |-> JBool(FALSE), interval_sec |-> JInt(30)],
     [id |-> JStr("u10"), url |-> UrlOf("u10"), enabled |-> ABSENT, interval_sec |-> JStr("soon")]}

SeqsUpTo(S, n) == UNION {[1..k -> S] : k \in 0..n}

ConfigBodies ==
    {[urls |-> JList(us), default_interval_sec |-> dflt] :
        us \in SeqsUpTo(UrlEntries, MaxUrls), dflt \in {ABSENT, JInt(120)}}
    \cup {[urls |-> ABSENT, default_interval_sec |-> ABSENT],
          [urls |-> JStr("u1"), default_interval_sec |-> ABSENT]}

\* Entries of a results list: one the agent sends without a timestamp, one
\* with a timestamp of its own and a failed probe, one psycopg2 cannot bind.
Untimed ==
    [timestamp_utc |-> ABSENT, url_id |-> JStr("u1"), url |-> UrlOf("u1"),
     success |-> JBool(TRUE), http_status |-> JInt(200), total_ms |-> JInt(12),
     error |-> ABSENT]

ResultEntries ==
    {Untimed,
     [timestamp_utc |-> JIso(1), url_id |-> JStr("u2"), url |-> UrlOf("u2"),
      success |-> JBool(FALSE), http_status |-> ABSENT, total_ms |-> ABSENT,
      error |-> JStr("timeout")],
     [timestamp_utc |-> ABSENT, url_id |-> JStr("u1"), url |-> UrlOf("u1"),
      success |-> JBool(FALSE), http_status |-> ABSENT, total_ms |-> ABSENT,
      error |-> JObj]}

ResultBodies ==
    {JList(rs) : rs \in SeqsUpTo(ResultEntries, MaxBatch)} \cup {JObj}

BodyLen(b) == IF IsList(b) THEN Len(b.list) ELSE 0

NoTxns == <<>>

Init ==
    /\ devices = {}
    /\ device_urls = {}
    /\ results = <<>>
    /\ clock = 0
    /\ req = [op |-> "none"]
    /\ resp = [op |-> "none", status |-> 0, body |-> NULL]
    /\ txns = NoTxns

Health ==
    /\ clock < MaxClock
    /\ clock' = clock + 1
    /\ req' = [op |-> "health"]
    /\ resp' = health(clock + 1)
    /\ UNCHANGED <<devices, device_urls, results, txns>>

Heartbeat ==
    /\ clock < MaxClock
    /\ \E d \in Devices, p \in HeartbeatParams :
          LET out == heartbeat(devices, clock + 1, d, p[1], p[2])
          IN /\ req' = [op |-> "heartbeat", device_id |-> d,
                         node_role |-> p[1], hostname |-> p[2]]
             /\ devices' = out.devices
             /\ resp' = out.resp
    /\ clock' = clock + 1
    /\ UNCHANGED <<device_urls, results, txns>>

GetConfig ==
    /\ \E d \in Devices :
          /\ req' = [op |-> "get_config", device_id |-> d]
          /\ resp' = get_config(device_urls, d)
    /\ UNCHANGED <<devices, device_urls, results, clock, txns>>

SetConfig ==
    /\ clock < MaxClock
    /\ \E d \in Devices, body \in ConfigBodies :
          LET out == set_config(devices, device_urls, clock + 1, d, body)
          IN /\ req' = [op |-> "set_config", device_id |-> d, body |-> body]
             /\ devices' = out.devices
             /\ device_urls' = out.device_urls
             /\ resp' = out.resp
    /\ clock' = clock + 1
    /\ UNCHANGED <<results, txns>>

Next == Health \/ Heartbeat \/ GetConfig \/ SetConfig

Spec == Init /\ [][Next]_vars

(***************************************************************************)
(* The results handlers.  SpecResults: two devices, every kind of body,    *)
(* a short table.  SpecWindow: one device uploading untimed results, a     *)
(* table longer than the limit of admin_results.                           *)
(***************************************************************************)
UploadResults(d, body) ==
    LET out == upload_results(results, clock + 1, d, body)
    IN /\ req' = [op |-> "upload_results", device_id |-> d, results |-> body]
       /\ results' = out.results
       /\ resp' = out.resp
       /\ clock' = clock + BodyLen(body)
       /\ UNCHANGED <<devices, device_urls, txns>>

Upload ==
    \E d \in Devices, body \in ResultBodies :
        /\ Len(results) + BodyLen(body) <= MaxRows
        /\ clock + BodyLen(body) <= MaxTime
        /\ UploadResults(d, body)

AdminResults ==
    /\ \E d \in Devices :
          \E out \in admin_results(results, d) :
             /\ req' = [op |-> "admin_results", device_id |-> d]
             /\ resp' = out
    /\ UNCHANGED <<devices, device_urls, results, clock, txns>>

NextResults == Upload \/ AdminResults

SpecResults == Init /\ [][NextResults]_vars

WindowDevice == "d1"

UploadWindow ==
    \E n \in 1..MaxBatch :
        /\ Len(results) + n <= WindowRows
        /\ UploadResults(WindowDevice, JList([i \in 1..n |-> Untimed]))

NextWindow == UploadWindow \/ AdminResults

SpecWindow == Init /\ [][NextWindow]_vars

(***************************************************************************)
(* SpecConc: set_config calls served concurrently, each on a connection    *)
(* of its own.  A connection's statements run in one transaction of the    *)
(* store at its default isolation (read committed): a statement sees the   *)
(* rows committed when it starts and the transaction's own changes; a      *)
(* delete waits for a transaction that has deleted one of its rows; an     *)
(* insert waits for a transaction that holds an uncommitted row, or an     *)
(* uncommitted delete, of the same key.  device_urls and devices are the   *)
(* committed tables.                                                       *)
(***************************************************************************)
Conns == {1, 2}

\* The device the concurrent calls are about
ConcDevices == {"d1"}

NoWrite == [written |-> FALSE, rows |-> {}]

IdleTxn(done) ==
    [pc |-> "idle", device_id |-> NULL, body |-> JNull, todo |-> <<>>, now |-> 0,
     dev_ins |-> {}, targets |-> {}, deleted |-> {}, inserted |-> {}, done |-> done]

Active(c) == txns[c].pc # "idle"
Others(c) == {o \in Conns \ {c} : Active(o)}

SameKey(r, q) == r.device_id = q.device_id /\ r.url_id = q.url_id

\* The bodies of the concurrent calls
ConcBodies ==
    {[urls |-> JList(us), default_interval_sec |-> ABSENT] :
        us \in SeqsUpTo(UrlEntries, MaxUrls)}
    \cup {[urls |-> JStr("u1"), default_interval_sec |-> ABSENT]}

InitConc ==
    /\ devices = {}
    /\ device_urls = {}
    /\ results = <<>>
    /\ clock = 0
    /\ req = [op |-> "none"]
    /\ resp = [op |-> "none", status |-> 0, body |-> NULL]
    /\ txns = [c \in Conns |-> IdleTxn([d \in Devices |-> NoWrite])]

\* set_config up to get_conn(): the body is checked, the connection opened
BeginSetConfig ==
    \E c \in Conns, d \in ConcDevices, body \in ConcBodies :
        /\ ~ Active(c)
        /\ clock < MaxCalls
        /\ clock' = clock + 1
        /\ req' = [op |-> "set_config", device_id |-> d, body |-> body, conn |-> c]
        /\ IF IsList(Get(body.urls, JList(<<>>)))
           THEN /\ txns' = [txns EXCEPT ![c] =
                             [@ EXCEPT !.pc = "upsert", !.device_id = d, !.body = body,
                                       !.todo = Get(body.urls, JList(<<>>)).list,
                                       !.now = clock + 1]]
                /\ resp' = [op |-> "set_config", status |-> 0, body |-> NULL]
           ELSE /\ txns' = txns
                /\ resp' = set_config(devices, device_urls, clock + 1, d, body).resp
        /\ UNCHANGED <<devices, device_urls, results>>

\* insert into devices ... on conflict (device_id) do nothing: waits for a
\* transaction holding an uncommitted row of the device_id
UpsertStmt ==
    \E c \in Conns :
        /\ txns[c].pc = "upsert"
        /\ \A o \in Others(c) :
              \A r \in txns[o].dev_ins : r.device_id # txns[c].device_id
        /\ txns' = [txns EXCEPT ![c] =
                      [@ EXCEPT !.pc = "delete",
                                !.dev_ins = EnsureDevice(devices, txns[c].device_id, txns[c].now)
                                            \ devices]]
        /\ UNCHANGED <<devices, device_urls, results, clock, req, resp>>

\* delete from device_urls where device_id = %s: the statement takes its
\* snapshot of the committed rows
DeleteStmt ==
    \E c \in Conns :
        /\ txns[c].pc = "delete"
        /\ txns' = [txns EXCEPT ![c] =
                      [@ EXCEPT !.pc = "deleting",
                                !.targets = device_urls
                                            \ DeleteUrls(device_urls, txns[c].device_id)]]
        /\ UNCHANGED <<devices, device_urls, results, clock, req, resp>>

\* ... and deletes the rows of the snapshot, once no other transaction holds
\* one of them deleted
DeleteDone ==
    \E c \in Conns :
        /\ txns[c].pc = "deleting"
        /\ \A o \in Others(c) : txns[o].deleted \cap txns[c].targets = {}
        /\ txns' = [txns EXCEPT ![c] =
                      [@ EXCEPT !.pc = IF txns[c].todo = <<>> THEN "commit" ELSE "insert",
                                !.deleted = txns[c].targets, !.targets = {}]]
        /\ UNCHANGED <<devices, device_urls, results, clock, req, resp>>

\* The row the next insert of connection c writes, and the tables it sees
NextRow(c) ==
    [device_id |-> txns[c].device_id, url_id |-> Bind(Head(txns[c].todo).id)]
View(c) == (device_urls \ txns[c].deleted) \cup txns[c].inserted
NextInsert(c) == InsertUrl(View(c), txns[c].device_id, Head(txns[c].todo), txns[c].body)

\* The connections whose uncommitted insert or delete the next insert of c
\* waits for
WaitsFor(c) ==
    {o \in Others(c) :
        \E r \in txns[o].inserted \cup txns[o].deleted : SameKey(r, NextRow(c))}

\* int() accepts the next entry's interval_sec
Coercible(c) ==
    PyInt(Get(Head(txns[c].todo).interval_sec,
              Get(txns[c].body.default_interval_sec, JInt(60)))).ok

\* One iteration of the insert loop that succeeds
InsertStmt ==
    \E c \in Conns :
        /\ txns[c].pc = "insert"
        /\ Coercible(c)
        /\ WaitsFor(c) = {}
        /\ NextInsert(c).ok
        /\ txns' = [txns EXCEPT ![c] =
                      [@ EXCEPT !.pc = IF Len(txns[c].todo) = 1 THEN "commit" ELSE "insert",
                                !.todo = Tail(txns[c].todo),
                                !.inserted = NextInsert(c).tab \ (device_urls \ txns[c].deleted)]]
        /\ UNCHANGED <<devices, device_urls, results, clock, req, resp>>

\* The handler raises: nothing of the transaction is committed
Abort(c) ==
    /\ txns' = [txns EXCEPT ![c] = IdleTxn(txns[c].done)]
    /\ req' = [op |-> "set_config", device_id |-> txns[c].device_id,
               body |-> txns[c].body, conn |-> c]
    /\ resp' = [op |-> "set_config", status |-> 500,
                body |-> [detail |-> "Internal Server Error"]]
    /\ UNCHANGED <<devices, device_urls, results, clock>>

\* One iteration of the insert loop that raises: int() refuses the
\* interval_sec, or the store refuses the repeated key
InsertFails ==
    \E c \in Conns :
        /\ txns[c].pc = "insert"
        /\ \/ ~ Coercible(c)
           \/ WaitsFor(c) = {} /\ ~ NextInsert(c).ok
        /\ Abort(c)

\* Two inserts wait for each other: the store aborts one of them
DeadlockDetected ==
    \E c \in Conns :
        /\ txns[c].pc = "insert"
        /\ Coercible(c)
        /\ \E o \in WaitsFor(c) :
              txns[o].pc = "insert" /\ Coercible(o) /\ c \in WaitsFor(o)
        /\ Abort(c)

\* conn.commit(), and the handler's return
CommitStmt ==
    \E c \in Conns :
        /\ txns[c].pc = "commit"
        /\ devices' = devices \cup txns[c].dev_ins
        /\ device_urls' = (device_urls \ txns[c].deleted) \cup txns[c].inserted
        /\ txns' = [o \in Conns |->
                      IF o = c
                      THEN IdleTxn([txns[c].done EXCEPT ![txns[c].device_id] =
                                      [written |-> TRUE, rows |-> txns[c].inserted]])
                      ELSE [txns[o] EXCEPT !.targets = @ \ txns[c].deleted]]
        /\ req' = [op |-> "set_config", device_id |-> txns[c].device_id,
                   body |-> txns[c].body, conn |-> c]
        /\ resp' = [op |-> "set_config", status |-> 200,
                    body |-> [ok |-> TRUE, device_id |-> txns[c].device_id,
                              urls |-> Len(Get(txns[c].body.urls, JList(<<>>)).list)]]
        /\ UNCHANGED <<results, clock>>

\* A heartbeat, one statement and its commit: the upsert waits for a
\* transaction holding an uncommitted row of the device_id
HeartbeatConc ==
    \E d \in ConcDevices, p \in HeartbeatParams :
        /\ clock < MaxCalls
        /\ \A o \in Conns : \A r \in txns[o].dev_ins : r.device_id # d
        /\ LET out == heartbeat(devices, clock + 1, d, p[1], p[2])
           IN /\ req' = [op |-> "heartbeat", device_id |-> d,
                          node_role |-> p[1], hostname |-> p[2]]
              /\ devices' = out.devices
              /\ resp' = out.resp
        /\ clock' = clock + 1
        /\ UNCHANGED <<device_urls, results, txns>>

NextConc ==
    \/ HeartbeatConc
    \/ BeginSetConfig
    \/ UpsertStmt
    \/ DeleteStmt
    \/ DeleteDone
    \/ InsertStmt
    \/ InsertFails
    \/ DeadlockDetected
    \/ CommitStmt
    \/ GetConfig

SpecConc == InitConc /\ [][NextConc]_vars

(***************************************************************************)
(* Properties of the configuration handlers, under Spec.                   *)
(***************************************************************************)
RowsOf(tab, d) == {r \in tab : r.device_id = d}
Range(seq) == {seq[i] : i \in DOMAIN seq}

\* What a urls entry is documented to be stored as.
WrittenEntry(u, body) ==
    [id |-> u.id, url |-> u.url,
     enabled |-> IF IsAbsent(u.enabled) THEN TRUE ELSE u.enabled.bool,
     interval_sec |-> IF ~ IsAbsent(u.interval_sec) THEN u.interval_sec.int
                      ELSE IF ~ IsAbsent(body.default_interval_sec)
                           THEN body.default_interval_sec.int
                           ELSE 60]

SetConfigSucceeded ==
    /\ req.op = "set_config"
    /\ resp.status = 200
    /\ ~ IsAbsent(req.body.urls)
    /\ req.body.urls.list # <<>>

\* C2: a successful set_config with a non-empty urls list, followed
\* immediately by get_config of the same device, returns exactly the written
\* entries (defaults filled in), in ascending url_id order, and nothing
\* of an earlier write.
C2_ReplaceThenFetch ==
    [][(/\ SetConfigSucceeded
        /\ req'.op = "get_config"
        /\ req'.device_id = req.device_id)
       => LET got == resp'.body.urls
              written == req.body.urls.list
          IN /\ Len(got) = Len(written)
             /\ Range(got) = {WrittenEntry(written[i], req.body) : i \in DOMAIN written}
             /\ \A i, j \in DOMAIN got :
                    i < j => Rank(got[i].id) < Rank(got[j].id)]_vars

\* C2 witness: get_config has returned two written entries, u10 before u2,
\* the second with the body's default_interval_sec.
C2_Witness ==
    /\ req.op = "get_config"
    /\ resp.body.urls =
          <<[id |-> [str |-> "u10"], url |-> [str |-> "https://u10"],
             enabled |-> FALSE, interval_sec |-> 30],
            [id |-> [str |-> "u2"], url |-> [str |-> "https://u2"],
             enabled |-> TRUE, interval_sec |-> 120]>>

UniqueDeviceRows ==
    \A r1, r2 \in devices : r1.device_id = r2.device_id => r1 = r2

\* C3: the devices table never holds two rows of one device_id, and every
\* heartbeat sets the device's last_seen_at strictly above its earlier value.
C3_HeartbeatIdempotent ==
    /\ []UniqueDeviceRows
    /\ [][req'.op = "heartbeat"
          => \A r \in devices, q \in devices' :
                (r.device_id = req'.device_id /\ q.device_id = req'.device_id)
                    => q.last_seen_at > r.last_seen_at]_vars

\* C3 witness: a heartbeat has refreshed the row of a device that an earlier
\* set_config had created (the device has stored urls).
C3_Witness ==
    /\ req.op = "heartbeat"
    /\ RowsOf(device_urls, req.device_id) # {}
    /\ \E r \in devices :
          r.device_id = req.device_id /\ r.last_seen_at = clock /\ clock > 1
    /\ Cardinality(RowsOf(devices, req.device_id)) = 1

\* C4: get_config of a device with no DeviceURL row returns the default
\* payload, and get_config changes no table.
C4_DefaultConfigReadOnly ==
    [][req'.op = "get_config"
       => /\ (RowsOf(device_urls, req'.device_id) = {}
               => resp'.body =
                    [device_id |-> req'.device_id,
                     urls |-> <<[id |-> [str |-> "u1"],
                                 url |-> [str |-> "https://example.org"],
                                 enabled |-> TRUE, interval_sec |-> 60]>>,
                     default_interval_sec |-> 60])
          /\ devices' = devices
          /\ device_urls' = device_urls
          /\ results' = results]_vars

\* C4 witness: get_config has answered for a device that only sent
\* heartbeats.
C4_Witness ==
    /\ req.op = "get_config"
    /\ RowsOf(device_urls, req.device_id) = {}
    /\ \E r \in devices : r.device_id = req.device_id /\ r.hostname = "pi-1"
    /\ resp.body.urls[1].id = [str |-> "u1"]

\* C8: a set_config that fails while inserting leaves devices and
\* device_urls exactly as they were.
C8_FailedSetConfigAborts ==
    [][(req'.op = "set_config" /\ resp'.status = 500)
       => (device_urls' = device_urls /\ devices' = devices)]_vars

\* C8 witness: a set_config failed on its second entry, for a device that has
\* no Device row, while another device keeps its stored urls.
C8_Witness ==
    /\ req.op = "set_config"
    /\ resp.status = 500
    /\ Len(req.body.urls.list) = 2
    /\ req.body.urls.list[1].interval_sec = ABSENT
    /\ RowsOf(devices, req.device_id) = {}
    /\ device_urls # {}

\* C9: set_config leaves every existing Device row as it is, and inserts at
\* most the row of its own device_id, with the placeholder secret.
C9_SetConfigKeepsDevice ==
    [][req'.op = "set_config"
       => /\ devices \subseteq devices'
          /\ \A q \in devices' \ devices :
                /\ q.device_id = req'.device_id
                /\ q.device_secret = "dev-secret"
                /\ RowsOf(devices, req'.device_id) = {}]_vars

\* C9 witness: set_config has succeeded for a device whose row still carries
\* the heartbeat that preceded it.
C9_Witness ==
    /\ req.op = "set_config"
    /\ resp.status = 200
    /\ \E r \in devices :
          /\ r.device_id = req.device_id
          /\ r.hostname = "pi-1"
          /\ r.last_seen_at < clock

\* The devices table with every device_secret replaced by s, and without
\* the device_secret column.
Rekey(devs, s) == {[r EXCEPT !.device_secret = s] : r \in devs}
Public(devs) ==
    {[device_id |-> r.device_id, hostname |-> r.hostname, node_role |-> r.node_role,
      last_seen_at |-> r.last_seen_at, last_heartbeat |-> r.last_heartbeat] : r \in devs}

\* What the handler of request r answers and commits on the tables given.
Serve(r, devs, urls, now) ==
    CASE r.op = "health" ->
            [devices |-> devs, device_urls |-> urls, resp |-> health(now)]
      [] r.op = "heartbeat" ->
            LET out == heartbeat(devs, now, r.device_id, r.node_role, r.hostname)
            IN [devices |-> out.devices, device_urls |-> urls, resp |-> out.resp]
      [] r.op = "get_config" ->
            [devices |-> devs, device_urls |-> urls,
             resp |-> get_config(urls, r.device_id)]
      [] r.op = "set_config" ->
            set_config(devs, urls, now, r.device_id, r.body)

\* C7: no response depends on a device_secret: served on a store that
\* differs only in the device_secret values, every request gets the same
\* response and leaves the same tables but for device_secret.
C7_SecretNeverExposed ==
    [][LET other == Serve(req', Rekey(devices, "rotated"), device_urls, clock + 1)
       IN /\ resp' = other.resp
          /\ Public(devices') = Public(other.devices)
          /\ device_urls' = other.device_urls]_vars

\* C7 witness: a heartbeat has been answered for a device whose row, with
\* its device_secret, was already stored.
C7_Witness ==
    /\ req.op = "heartbeat"
    /\ resp.status = 200
    /\ \E r \in devices :
          /\ r.device_id = req.device_id
          /\ r.device_secret = DEV_SECRET
          /\ r.last_seen_at = clock
    /\ RowsOf(device_urls, req.device_id) # {}

(***************************************************************************)
(* Properties of the results handlers.                                     *)
(***************************************************************************)
LastN(seq, n) == SubSeq(seq, IF Len(seq) > n THEN Len(seq) - n + 1 ELSE 1, Len(seq))

\* C1: admin_results returns the most recent 50 rows of the device (all of
\* them when there are fewer), in ascending timestamp order.  Checked under
\* SpecWindow, where it fails as soon as the device has 51 rows.
C1_MostRecentFifty ==
    req.op = "admin_results"
    => \E o \in OrderByTimestamp(results,
                   {i \in DOMAIN results : results[i].device_id = req.device_id}) :
          resp = admin_results_response(results, req.device_id, LastN(o, 50))

BindableEntry(r) == \A f \in DOMAIN r : "obj" \notin DOMAIN r[f]

\* C5: an upload of N well-formed entries appends exactly N rows of the
\* device and answers count = N; an upload whose results is no array is
\* answered 400 and leaves the table as it was.
C5_UploadCounts ==
    [][req'.op = "upload_results"
       => LET body == req'.results
              old == Len(results)
          IN /\ (IsList(body) /\ \A i \in DOMAIN body.list : BindableEntry(body.list[i]))
                => /\ resp'.status = 200
                   /\ resp'.body.count = Len(body.list)
                   /\ Len(results') = old + Len(body.list)
                   /\ SubSeq(results', 1, old) = results
                   /\ \A i \in 1..Len(body.list) :
                         results'[old + i].device_id = req'.device_id
             /\ ~ IsList(body)
                => (resp'.status = 400 /\ results' = results)]_vars

\* C5 witness: an upload of two entries, one of them without a timestamp,
\* has been answered count = 2 and its rows end the table.
C5_Witness ==
    /\ req.op = "upload_results"
    /\ resp.status = 200
    /\ resp.body.count = 2
    /\ \E i \in 1..2 : IsAbsent(req.results.list[i].timestamp_utc)
    /\ Len(results) = 3
    /\ results[2].device_id = req.device_id
    /\ results[3].device_id = req.device_id

\* C6: an upload in which an insert fails leaves the results table exactly
\* as it was, the rows inserted before the failing one included.
C6_UploadAllOrNothing ==
    [][(req'.op = "upload_results" /\ resp'.status = 500)
       => results' = results]_vars

\* C6 witness: an upload failed on its second entry, after the first was
\* inserted, and the table still holds only the earlier rows.
C6_Witness ==
    /\ req.op = "upload_results"
    /\ resp.status = 500
    /\ Len(req.results.list) = 2
    /\ BindableEntry(req.results.list[1])
    /\ ~ BindableEntry(req.results.list[2])
    /\ Len(results) = 1

(***************************************************************************)
(* Replace semantics under interleaving, under SpecConc.                   *)
(***************************************************************************)
\* C10: the committed DeviceURL set of a device is at every moment the
\* complete set written by one set_config call (so two concurrent calls
\* leave the set of one of them, and a concurrent get_config sees a prior
\* or a new set, complete), never a merge of two calls.
C10_ReplaceUnderInterleaving ==
    \A d \in Devices :
        \/ RowsOf(device_urls, d) = {} /\ \A c \in Conns : ~ txns[c].done[d].written
        \/ \E c \in Conns :
              txns[c].done[d].written /\ RowsOf(device_urls, d) = txns[c].done[d].rows

====
